---- MODULE Spec2Model ----
(***************************************************************************)
(* Repetition detection engine of ai_fitness demo/client/rep_logic.py and  *)
(* the frame loop of ai_fitness demo/client/rep_demo.py.                   *)
(*                                                                         *)
(* Units: angles in whole degrees, times in hundredths of a second,        *)
(* the hip coordinate in pixels, the confidence in percent.  An Optional   *)
(* value is a sequence of length at most one: <<>> is None, <<v>> is v.    *)
(***************************************************************************)
EXTENDS Integers, Sequences, FiniteSets, TLC

VARIABLES
    now,              \* the reading of time.time() at the last call
    limb_states,      \* MultiRepState.limb_states: limb id -> SingleLimbState
    completed_reps,   \* the list returned by the last update_multi_rep_state call
    current_exercise, \* the exercise hint of the last call (rep_demo: of the session)
    rep_queue,        \* rep_demo.rep_queue
    emitted,          \* log: <<limb_id, rep_id, end time>> of every summary returned
    cycle,            \* log: limb id -> hip samples fed to it since it entered FLEXED
    joint_min,        \* log: limb id -> least driving angle since it entered FLEXED
    motion,           \* the subject's movement and the frame period sampling it
    twin,             \* a second session fed frames that agree on one knee only
    worker_pc,        \* llm_worker: "get" at rep_queue.get(), "post" inside requests.post
    rep_summary,      \* llm_worker: the summary it took from rep_queue (Optional)
    last_coaching_message, \* rep_demo.last_coaching_message
    speech_threads,   \* the messages for which a speak_message thread was started
    unfinished_tasks  \* rep_queue.unfinished_tasks: puts not yet matched by task_done

worker == <<worker_pc, rep_summary, last_coaching_message, speech_threads>>

vars == <<now, limb_states, completed_reps, current_exercise, rep_queue, emitted, cycle,
          joint_min, motion, twin, worker_pc, rep_summary, last_coaching_message, speech_threads,
          unfinished_tasks>>

\* ---------------------------------------------------------------- bounds
MaxTime == 60
MaxSamples == 3

\* ---------------------------------------------------------------- helpers
None == <<>>
Some(v) == <<v>>

Max2(a, b) == IF a >= b THEN a ELSE b

RECURSIVE SeqMax(_)
SeqMax(s) == IF Len(s) = 1 THEN s[1] ELSE Max2(s[1], SeqMax(Tail(s)))

RECURSIVE SeqMin(_)
SeqMin(s) == IF Len(s) = 1 THEN s[1]
             ELSE LET m == SeqMin(Tail(s)) IN IF s[1] <= m THEN s[1] ELSE m

RECURSIVE SeqSum(_)
SeqSum(s) == IF s = <<>> THEN 0 ELSE s[1] + SeqSum(Tail(s))

\* numpy.mean of a non-empty list, kept exact as the pair sum / count
Mean(s) == [sum |-> SeqSum(s), n |-> Len(s)]

\* ---------------------------------------------------------------- configuration
NoneHint == "<None>"

EXERCISE_CONFIG ==
    [ squat |->
        [limbs |-> <<"global">>, primary_joint |-> "knee",
         flexed_threshold |-> 35, extended_threshold |-> 15,
         min_rep_duration |-> 20, min_rest_time |-> 8,
         use_limb_delta |-> FALSE, limb_activation_delta |-> 0],
      pushup |->
        [limbs |-> <<"global">>, primary_joint |-> "elbow",
         flexed_threshold |-> 40, extended_threshold |-> 20,
         min_rep_duration |-> 18, min_rest_time |-> 8,
         use_limb_delta |-> FALSE, limb_activation_delta |-> 0],
      bicep_curl |->
        [limbs |-> <<"global">>, primary_joint |-> "elbow",
         flexed_threshold |-> 90, extended_threshold |-> 20,
         min_rep_duration |-> 15, min_rest_time |-> 6,
         use_limb_delta |-> FALSE, limb_activation_delta |-> 0],
      lunge |->
        [limbs |-> <<"global">>, primary_joint |-> "knee",
         flexed_threshold |-> 45, extended_threshold |-> 20,
         min_rep_duration |-> 22, min_rest_time |-> 10,
         use_limb_delta |-> FALSE, limb_activation_delta |-> 0],
      mountain_climber |->
        [limbs |-> <<"left", "right">>, primary_joint |-> "knee",
         flexed_threshold |-> 40, extended_threshold |-> 20,
         min_rep_duration |-> 15, min_rest_time |-> 6,
         use_limb_delta |-> TRUE, limb_activation_delta |-> 15] ]

DEFAULT_CONFIG ==
    [limbs |-> <<"global">>, primary_joint |-> "knee",
     flexed_threshold |-> 35, extended_threshold |-> 15,
     min_rep_duration |-> 30, min_rest_time |-> 20,
     use_limb_delta |-> FALSE, limb_activation_delta |-> 0]

\* Python truthiness of an Optional[str]: None and "" are falsy
Truthy(exercise_name) == exercise_name # NoneHint /\ exercise_name # ""

\* get_exercise_config falling back to the squat entry
get_exercise_config_squat(exercise_name) ==
    IF Truthy(exercise_name) /\ exercise_name \in DOMAIN EXERCISE_CONFIG
    THEN EXERCISE_CONFIG[exercise_name]
    ELSE EXERCISE_CONFIG["squat"]

get_exercise_config(exercise_name) ==
    IF Truthy(exercise_name) /\ exercise_name \in DOMAIN EXERCISE_CONFIG
    THEN EXERCISE_CONFIG[exercise_name]
    ELSE DEFAULT_CONFIG

\* ---------------------------------------------------------------- limb state
SingleLimbState ==
    [state |-> "EXTENDED", rep_id |-> 0, rep_start_time |-> None,
     hip_positions |-> <<>>, knee_angles |-> <<>>, elbow_angles |-> <<>>,
     torso_devs |-> <<>>, confidences |-> <<>>,
     last_rep_end_time |-> None]

\* dict.get(key, default) on a feature frame (a function on the keys present)
Get(features, key, default) ==
    IF key \in DOMAIN features THEN features[key] ELSE default

\* get_limb_joint_flex: <<joint angle, flex amount>> of a limb
get_limb_joint_flex(cfg, features, limb) ==
    LET left_knee_angle   == Get(features, "left_knee_angle_frame", 180)
        right_knee_angle  == Get(features, "right_knee_angle_frame", 180)
        left_elbow_angle  == Get(features, "left_elbow_angle_frame", 180)
        right_elbow_angle == Get(features, "right_elbow_angle_frame", 180)
        knee_min_angle    == Get(features, "knee_min_angle_frame", 180)
        elbow_min_angle   == Get(features, "elbow_min_angle_frame", 180)
        left_knee_flex    == 180 - left_knee_angle
        right_knee_flex   == 180 - right_knee_angle
        left_elbow_flex   == 180 - left_elbow_angle
        right_elbow_flex  == 180 - right_elbow_angle
    IN  IF cfg.primary_joint = "knee"
        THEN IF limb = "left" THEN <<left_knee_angle, left_knee_flex>>
             ELSE IF limb = "right" THEN <<right_knee_angle, right_knee_flex>>
             ELSE <<knee_min_angle, Max2(left_knee_flex, right_knee_flex)>>
        ELSE IF limb = "left" THEN <<left_elbow_angle, left_elbow_flex>>
             ELSE IF limb = "right" THEN <<right_elbow_angle, right_elbow_flex>>
             ELSE <<elbow_min_angle, Max2(left_elbow_flex, right_elbow_flex)>>

\* FlexAmount taking every limb's flex from the whole frame, as for "global"
FlexAmountOfFrame(cfg, features, limb) == get_limb_joint_flex(cfg, features, "global")[2]

FlexAmount(cfg, features, limb) == get_limb_joint_flex(cfg, features, limb)[2]

\* ---------------------------------------------------------------- state machine
\* the five accumulators after a list.clear()
Cleared(state) ==
    [state EXCEPT !.hip_positions = <<>>, !.knee_angles = <<>>,
                  !.elbow_angles = <<>>, !.torso_devs = <<>>,
                  !.confidences = <<>>]

\* "state.rep_start_time or end_time": None and 0.0 are falsy
StartTime(state, end_time) ==
    IF state.rep_start_time = None \/ state.rep_start_time[1] = 0
    THEN end_time
    ELSE state.rep_start_time[1]

\* InCooldown measuring the rest from rep_start_time, which an EXTENDED limb
\* never has: the cooldown never applies
InCooldownFromStart(state, cfg, t) ==
    /\ state.rep_start_time # None
    /\ t - state.rep_start_time[1] < cfg.min_rest_time

\* InCooldown without the clock: a limb that ended a cycle rests for ever
InCooldownForever(state, cfg, t) == state.last_rep_end_time # None

\* the cooldown test of an EXTENDED limb: TRUE when the call skips the limb
InCooldown(state, cfg, t) ==
    /\ state.last_rep_end_time # None
    /\ t - state.last_rep_end_time[1] < cfg.min_rest_time

\* EnterFlexed leaving the accumulators empty instead of seeding them
EnterFlexedUnseeded(state, features, avg_confidence, t) ==
    [state EXCEPT !.state = "FLEXED", !.rep_start_time = Some(t)]

\* EXTENDED -> FLEXED: the state after the limb starts a repetition
EnterFlexed(state, features, avg_confidence, t) ==
    [state EXCEPT
        !.state = "FLEXED",
        !.rep_start_time = Some(t),
        !.hip_positions = <<Get(features, "center_hip_y", 0)>>,
        !.knee_angles = <<Get(features, "knee_min_angle_frame", 180)>>,
        !.elbow_angles = <<Get(features, "elbow_min_angle_frame", 180)>>,
        !.torso_devs = <<Get(features, "torso_dev_frame", 0)>>,
        !.confidences = <<avg_confidence>>]

\* FLEXED: the state after the call's measurements are appended
Accumulate(state, features, avg_confidence) ==
    [state EXCEPT
        !.hip_positions = Append(@, Get(features, "center_hip_y", 0)),
        !.knee_angles = Append(@, Get(features, "knee_min_angle_frame", 180)),
        !.elbow_angles = Append(@, Get(features, "elbow_min_angle_frame", 180)),
        !.torso_devs = Append(@, Get(features, "torso_dev_frame", 0)),
        !.confidences = Append(@, avg_confidence)]

\* Discard forgetting "state.rep_start_time = None"
DiscardKeepsStart(state, end_time) ==
    [Cleared(state) EXCEPT
        !.state = "EXTENDED",
        !.last_rep_end_time = Some(end_time)]

\* Discard forgetting "state.last_rep_end_time = end_time"
DiscardNoCooldown(state, end_time) ==
    [Cleared(state) EXCEPT
        !.state = "EXTENDED",
        !.rep_start_time = None]

\* Discard taking a number: the short cycle advances rep_id
DiscardCounts(state, end_time) ==
    [Cleared(state) EXCEPT
        !.state = "EXTENDED",
        !.rep_id = @ + 1,
        !.rep_start_time = None,
        !.last_rep_end_time = Some(end_time)]

\* the short-cycle branch: reset without counting
Discard(state, end_time) ==
    [Cleared(state) EXCEPT
        !.state = "EXTENDED",
        !.rep_start_time = None,
        !.last_rep_end_time = Some(end_time)]

\* hip_vertical_range of the accumulated samples
HipVerticalRange(hip_positions) ==
    IF hip_positions # <<>> THEN SeqMax(hip_positions) - SeqMin(hip_positions) ELSE 0

\* the rep_summary dict; state is the limb after rep_id += 1, lists not yet cleared
RepSummary(state, limb_id, duration, exercise_hint) ==
    [rep_id |-> state.rep_id,
     limb_id |-> limb_id,
     duration_s |-> duration,
     hip_vertical_range |-> HipVerticalRange(state.hip_positions),
     knee_min_angle |-> IF state.knee_angles # <<>> THEN SeqMin(state.knee_angles) ELSE 180,
     elbow_min_angle |-> IF state.elbow_angles # <<>> THEN SeqMin(state.elbow_angles) ELSE 180,
     torso_max_lean_deg |-> IF state.torso_devs # <<>> THEN SeqMax(state.torso_devs) ELSE 0,
     left_right_asymmetry |-> 0,
     movement_smoothness |-> 80,
     avg_confidence |-> IF state.confidences # <<>> THEN Mean(state.confidences)
                        ELSE [sum |-> 0, n |-> 1],
     exercise_hint |-> exercise_hint]

\* the counted branch: the limb after the repetition is counted
CountRep(state, end_time) ==
    [Cleared(state) EXCEPT
        !.state = "EXTENDED",
        !.rep_id = @ + 1,
        !.last_rep_end_time = Some(end_time),
        !.rep_start_time = None]

\* FinishRep measuring the cycle by the distance between the two clock readings
FinishRepAbs(state, limb_id, cfg, t, exercise_hint) ==
    LET elapsed == t - StartTime(state, t)
        duration == IF elapsed < 0 THEN 0 - elapsed ELSE elapsed
    IN  IF duration < cfg.min_rep_duration
        THEN [state |-> Discard(state, t), reps |-> <<>>]
        ELSE [state |-> CountRep(state, t),
              reps  |-> <<RepSummary([state EXCEPT !.rep_id = @ + 1],
                                     limb_id, duration, exercise_hint)>>]

\* FinishRep discarding a cycle that lasts exactly min_rep_duration
FinishRepStrict(state, limb_id, cfg, t, exercise_hint) ==
    LET duration == t - StartTime(state, t)
    IN  IF duration <= cfg.min_rep_duration
        THEN [state |-> Discard(state, t), reps |-> <<>>]
        ELSE [state |-> CountRep(state, t),
              reps  |-> <<RepSummary([state EXCEPT !.rep_id = @ + 1],
                                     limb_id, duration, exercise_hint)>>]

\* FLEXED limb whose flex fell below extended_threshold
FinishRep(state, limb_id, cfg, t, exercise_hint) ==
    LET duration == t - StartTime(state, t)
    IN  IF duration < cfg.min_rep_duration
        THEN [state |-> Discard(state, t), reps |-> <<>>]
        ELSE [state |-> CountRep(state, t),
              reps  |-> <<RepSummary([state EXCEPT !.rep_id = @ + 1],
                                     limb_id, duration, exercise_hint)>>]

\* LimbStep with neither time test: no cooldown and every cycle counted
LimbStepNoTiming(state, limb_id, cfg, features, avg_confidence, t, exercise_hint) ==
    LET flex_amount == FlexAmount(cfg, features, limb_id)
    IN  IF state.state = "EXTENDED"
        THEN IF flex_amount > cfg.flexed_threshold
             THEN [state |-> EnterFlexed(state, features, avg_confidence, t),
                   reps |-> <<>>]
             ELSE [state |-> state, reps |-> <<>>]
        ELSE LET acc == Accumulate(state, features, avg_confidence)
             IN  IF flex_amount < cfg.extended_threshold
                 THEN [state |-> CountRep(acc, t),
                       reps  |-> <<RepSummary([acc EXCEPT !.rep_id = @ + 1], limb_id,
                                              t - StartTime(acc, t), exercise_hint)>>]
                 ELSE [state |-> acc, reps |-> <<>>]

\* LimbStep testing the return to EXTENDED before appending the call's samples
LimbStepExitFirst(state, limb_id, cfg, features, avg_confidence, t, exercise_hint) ==
    LET flex_amount == FlexAmount(cfg, features, limb_id)
    IN  IF state.state = "EXTENDED"
        THEN IF InCooldown(state, cfg, t)
             THEN [state |-> state, reps |-> <<>>]
             ELSE IF flex_amount > cfg.flexed_threshold
                  THEN [state |-> EnterFlexed(state, features, avg_confidence, t),
                        reps |-> <<>>]
                  ELSE [state |-> state, reps |-> <<>>]
        ELSE IF flex_amount < cfg.extended_threshold
             THEN FinishRep(state, limb_id, cfg, t, exercise_hint)
             ELSE [state |-> Accumulate(state, features, avg_confidence), reps |-> <<>>]

\* one iteration of "for limb_id in limbs": the limb's new state and the
\* summaries it appends to completed_reps
LimbStep(state, limb_id, cfg, features, avg_confidence, t, exercise_hint) ==
    LET flex_amount == FlexAmount(cfg, features, limb_id)
    IN  IF state.state = "EXTENDED"
        THEN IF InCooldown(state, cfg, t)
             THEN [state |-> state, reps |-> <<>>]
             ELSE IF flex_amount > cfg.flexed_threshold
                  THEN [state |-> EnterFlexed(state, features, avg_confidence, t),
                        reps |-> <<>>]
                  ELSE [state |-> state, reps |-> <<>>]
        ELSE LET acc == Accumulate(state, features, avg_confidence)
             IN  IF flex_amount < cfg.extended_threshold
                 THEN FinishRep(acc, limb_id, cfg, t, exercise_hint)
                 ELSE [state |-> acc, reps |-> <<>>]

\* EnsureLimbs rebuilding the dict from the configured limbs when one is missing
EnsureLimbsRebuild(ls, limbs) ==
    IF \A i \in DOMAIN limbs : limbs[i] \in DOMAIN ls
    THEN ls
    ELSE [l \in {limbs[i] : i \in DOMAIN limbs} |-> SingleLimbState]

\* EnsureLimbs creating a state for every limb id, configured or not
EnsureLimbsAll(ls, limbs) ==
    [l \in DOMAIN ls \cup {"global", "left", "right"} |->
        IF l \in DOMAIN ls THEN ls[l] ELSE SingleLimbState]

\* "Ensure limb states exist"
EnsureLimbs(ls, limbs) ==
    [l \in DOMAIN ls \cup {limbs[i] : i \in DOMAIN limbs} |->
        IF l \in DOMAIN ls THEN ls[l] ELSE SingleLimbState]

RECURSIVE RunLimbs(_, _, _, _, _, _, _, _)

\* RunLimbs inserting each summary at the front of completed_reps
RunLimbsPrepend(ls, reps, cfg, i, features, avg_confidence, t, exercise_hint) ==
    IF i > Len(cfg.limbs)
    THEN [limb_states |-> ls, completed_reps |-> reps]
    ELSE LET limb_id == cfg.limbs[i]
             r == LimbStep(ls[limb_id], limb_id, cfg, features, avg_confidence,
                           t, exercise_hint)
         IN  RunLimbs([ls EXCEPT ![limb_id] = r.state], r.reps \o reps, cfg, i + 1,
                      features, avg_confidence, t, exercise_hint)

\* the loop over cfg["limbs"], from index i on
RunLimbs(ls, reps, cfg, i, features, avg_confidence, t, exercise_hint) ==
    IF i > Len(cfg.limbs)
    THEN [limb_states |-> ls, completed_reps |-> reps]
    ELSE LET limb_id == cfg.limbs[i]
             r == LimbStep(ls[limb_id], limb_id, cfg, features, avg_confidence,
                           t, exercise_hint)
         IN  RunLimbs([ls EXCEPT ![limb_id] = r.state], reps \o r.reps, cfg, i + 1,
                      features, avg_confidence, t, exercise_hint)

\* update_multi_rep_state called at clock reading t: the new limb_states and
\* the returned list
update_multi_rep_state(ls, features, avg_confidence, exercise_hint, t) ==
    LET cfg == get_exercise_config(exercise_hint)
    IN  RunLimbs(EnsureLimbs(ls, cfg.limbs), <<>>, cfg, 1, features,
                 avg_confidence, t, exercise_hint)

\* ---------------------------------------------------------------- inputs
LimbIds == {"global", "left", "right"}

\* rep_demo.EXERCISE_OPTIONS: what choose_exercise can return
EXERCISE_OPTIONS == {"squat", "pushup", "bicep_curl", "lunge", "mountain_climber"}

\* exercise hints of a caller of the engine: the known names, None, "" and
\* an unknown name
Hints == EXERCISE_OPTIONS \cup {NoneHint, "", "zumba"}

KneeAngles == {180, 145, 130}
ElbowMins == {170}
TorsoDevs == {5}
HipYs == {200, 230}
DTs == {5, 20}
CoarseDTs == {10, 20}

\* the feature dict PoseEstimator.process builds
PoseFrame(left_knee_angle, right_knee_angle, elbow_min, torso_dev, center_hip_y) ==
    [knee_min_angle_frame |-> IF left_knee_angle <= right_knee_angle
                              THEN left_knee_angle ELSE right_knee_angle,
     elbow_min_angle_frame |-> elbow_min,
     torso_dev_frame |-> torso_dev,
     center_hip_y |-> center_hip_y,
     left_knee_angle_frame |-> left_knee_angle,
     right_knee_angle_frame |-> right_knee_angle]

\* the frames of a subject whose hip height is one of hips
PoseFrames(hips) ==
    {PoseFrame(lk, rk, em, td, hy) :
        lk \in KneeAngles, rk \in KneeAngles, em \in ElbowMins,
        td \in TorsoDevs, hy \in hips}

\* ---------------------------------------------------------------- logs
\* the log entries of the summaries a call at clock reading t returned
EmittedBy(reps, t) == [i \in DOMAIN reps |-> <<reps[i].limb_id, reps[i].rep_id, t>>]

\* the hip samples of a limb's current cycle after a call that moved the limb
\* from state before to state after
CycleAfter(log, configured, before, after, center_hip_y) ==
    IF ~configured THEN log
    ELSE IF before = "FLEXED" THEN Append(log, center_hip_y)
    ELSE IF after = "FLEXED" THEN <<center_hip_y>>
    ELSE <<>>

\* the least driving angle of a limb's current cycle after a call that showed
\* the limb the angle joint_angle
JointMinAfter(log, configured, before, after, joint_angle) ==
    IF ~configured THEN log
    ELSE IF before = "FLEXED"
         THEN Some(IF joint_angle <= log[1] THEN joint_angle ELSE log[1])
    ELSE IF after = "FLEXED" THEN Some(joint_angle)
    ELSE None

StateOf(ls, l) == IF l \in DOMAIN ls THEN ls[l].state ELSE "EXTENDED"

Configured(cfg, l) == \E i \in DOMAIN cfg.limbs : cfg.limbs[i] = l

\* the cap on the calls one cycle may span
WithinSamples(ls) == \A l \in DOMAIN ls : Len(ls[l].hip_positions) <= MaxSamples

\* a session whose frames do not come from a described movement
NoMotion == [slope |-> 0, peak |-> 0, period |-> 0]

\* a session that is not run beside a second one
NoTwin == [limb |-> "none", limb_states |-> [l \in {} |-> SingleLimbState]]

\* llm_worker before the frame loop starts: blocked in rep_queue.get()
WorkerInit ==
    /\ worker_pc = "get"
    /\ rep_summary = None
    /\ last_coaching_message = ""
    /\ speech_threads = <<>>
    /\ unfinished_tasks = 0

\* ---------------------------------------------------------------- actions
\* one update_multi_rep_state call at clock reading t
Call(features, avg_confidence, exercise_hint, t) ==
    \E r \in {update_multi_rep_state(limb_states, features, avg_confidence,
                                     exercise_hint, t)},
       cfg \in {get_exercise_config(exercise_hint)} :
        /\ now' = t
        /\ limb_states' = r.limb_states
        /\ completed_reps' = r.completed_reps
        /\ current_exercise' = exercise_hint
        /\ emitted' = emitted \o EmittedBy(r.completed_reps, t)
        /\ cycle' = [l \in LimbIds |->
                        CycleAfter(cycle[l], Configured(cfg, l),
                                   StateOf(limb_states, l), StateOf(r.limb_states, l),
                                   Get(features, "center_hip_y", 0))]
        /\ joint_min' = [l \in LimbIds |->
                            JointMinAfter(joint_min[l], Configured(cfg, l),
                                          StateOf(limb_states, l),
                                          StateOf(r.limb_states, l),
                                          180 - FlexAmount(cfg, features, l))]

\* a session of engine calls under one exercise hint, the clock advancing by
\* one of steps between calls
Update(frames, steps) ==
    \E features \in frames, dt \in steps :
        /\ now + dt <= MaxTime
        /\ Call(features, 95, current_exercise, now + dt)
        /\ WithinSamples(limb_states')
        /\ UNCHANGED <<rep_queue, motion, twin, worker, unfinished_tasks>>

Init ==
    /\ now = 0
    /\ limb_states = [l \in {} |-> SingleLimbState]
    /\ completed_reps = <<>>
    /\ current_exercise \in Hints
    /\ rep_queue = <<>>
    /\ emitted = <<>>
    /\ cycle = [l \in LimbIds |-> <<>>]
    /\ joint_min = [l \in LimbIds |-> None]
    /\ motion = NoMotion
    /\ twin = NoTwin
    /\ WorkerInit

Next == Update(PoseFrames({200}), DTs)

Spec == Init /\ [][Next]_vars

\* the same session for one single-track exercise, the two-track exercise and
\* the default configuration
RestExercises == {"squat", "mountain_climber", NoneHint}

InitRest ==
    /\ Init
    /\ current_exercise \in RestExercises

NextRest == Update(PoseFrames({200}), DTs)

SpecRest == InitRest /\ [][NextRest]_vars

\* the same session with a varying hip height and a coarser clock
NextHip == Update(PoseFrames(HipYs), CoarseDTs)

SpecHip == Init /\ [][NextHip]_vars

\* engine calls whose exercise hint may change from one call to the next
UpdateAnyHint ==
    \E exercise_hint \in Hints, features \in PoseFrames({200}), dt \in {10} :
        /\ now + dt <= MaxTime
        /\ Call(features, 95, exercise_hint, now + dt)
        /\ WithinSamples(limb_states')
        /\ UNCHANGED <<rep_queue, motion, twin, worker, unfinished_tasks>>

NextHint == UpdateAnyHint

SpecHint == Init /\ [][NextHint]_vars

\* ---------------------------------------------------------------- sampled movement
\* one bend of both knees: the flex amount rises by slope per hundredth of a
\* second until peak and falls back at the same rate
Slopes == {3, 5}
Peaks == {10, 14, 20}
Periods == {1, 3, 9, 10}
KneeExercises == {"squat", "lunge", "mountain_climber"}

MotionFlex(m, t) ==
    LET d == IF t <= m.peak THEN t ELSE 2 * m.peak - t
    IN  IF d > 0 THEN m.slope * d ELSE 0

\* the frame PoseEstimator.process produces at time t of the movement
MotionFrame(m, t) ==
    PoseFrame(180 - MotionFlex(m, t), 180 - MotionFlex(m, t), 170, 5, 200)

\* one frame of the movement, a frame period after the last one
SampleMotion ==
    /\ now + motion.period <= MaxTime
    /\ Call(MotionFrame(motion, now + motion.period), 95, current_exercise,
            now + motion.period)
    /\ UNCHANGED <<rep_queue, motion, twin, worker, unfinished_tasks>>

InitRate ==
    /\ now = 0
    /\ limb_states = [l \in {} |-> SingleLimbState]
    /\ completed_reps = <<>>
    /\ current_exercise \in KneeExercises
    /\ rep_queue = <<>>
    /\ emitted = <<>>
    /\ cycle = [l \in LimbIds |-> <<>>]
    /\ joint_min = [l \in LimbIds |-> None]
    /\ motion \in [slope : Slopes, peak : Peaks, period : Periods]
    /\ twin = NoTwin
    /\ WorkerInit

NextRate == SampleMotion

SpecRate == InitRate /\ [][NextRate]_vars

\* ---------------------------------------------------------------- squat scenario
\* the knee angles of one squat, one frame every 0.1 s (10 Hz)
SquatAngles == <<180, 170, 150, 130, 145, 170, 180>>
FramePeriod10Hz == 10

\* the frames that show knee angle a, on both knees or on the more bent one,
\* with any of a few elbow, torso and hip readings
FramesShowing(a) ==
    {PoseFrame(k[1], k[2], em, td, hy) :
        k \in {<<a, a>>, <<a, 180>>, <<180, a>>},
        em \in {170, 160}, td \in {5, 10, 15}, hy \in HipYs}

\* the number of scenario frames fed so far
FramesFed == now \div FramePeriod10Hz

\* the next frame of the scenario
ScenarioFrame ==
    /\ FramesFed < Len(SquatAngles)
    /\ \E features \in FramesShowing(SquatAngles[FramesFed + 1]) :
          Call(features, 95, current_exercise, now + FramePeriod10Hz)
    /\ UNCHANGED <<rep_queue, motion, twin, worker, unfinished_tasks>>

InitScenario ==
    /\ Init
    /\ current_exercise = "squat"

NextScenario == ScenarioFrame

SpecScenario == InitScenario /\ [][NextScenario]_vars

\* ---------------------------------------------------------------- deep bends
\* the frames of a subject who also bends a knee to 100 degrees
DeepFrames ==
    {PoseFrame(lk, rk, 170, 5, 200) : lk \in {180, 130, 100}, rk \in {180, 130, 100}}

InitDeep ==
    /\ Init
    /\ current_exercise \in KneeExercises

NextDeep == Update(DeepFrames, CoarseDTs)

SpecDeep == InitDeep /\ [][NextDeep]_vars

\* ---------------------------------------------------------------- partial frames
\* the keys update_multi_rep_state reads from a feature dict
FeatureKeys ==
    {"left_knee_angle_frame", "right_knee_angle_frame",
     "left_elbow_angle_frame", "right_elbow_angle_frame",
     "knee_min_angle_frame", "elbow_min_angle_frame",
     "torso_dev_frame", "center_hip_y"}

\* a feature dict with every key the engine reads
FullFrame(left_knee, right_knee, left_elbow, right_elbow, torso_dev, center_hip_y) ==
    [left_knee_angle_frame |-> left_knee,
     right_knee_angle_frame |-> right_knee,
     left_elbow_angle_frame |-> left_elbow,
     right_elbow_angle_frame |-> right_elbow,
     knee_min_angle_frame |-> IF left_knee <= right_knee THEN left_knee ELSE right_knee,
     elbow_min_angle_frame |-> IF left_elbow <= right_elbow THEN left_elbow ELSE right_elbow,
     torso_dev_frame |-> torso_dev,
     center_hip_y |-> center_hip_y]

\* a dict without the keys in missing
Without(features, missing) == [k \in DOMAIN features \ missing |-> features[k]]

\* the groups of keys a producer may fail to deliver
KneeKeys == {"left_knee_angle_frame", "right_knee_angle_frame", "knee_min_angle_frame"}
ElbowKeys == {"left_elbow_angle_frame", "right_elbow_angle_frame", "elbow_min_angle_frame"}
MissingSets ==
    {{}, FeatureKeys, KneeKeys, ElbowKeys,
     {"left_knee_angle_frame"}, {"right_knee_angle_frame"},
     {"left_knee_angle_frame", "right_knee_angle_frame"},
     {"left_elbow_angle_frame", "right_elbow_angle_frame"},
     {"torso_dev_frame", "center_hip_y"}}

\* the frames of a caller whose dicts may lack keys
PartialFrames ==
    {Without(FullFrame(lk, rk, el, el, 5, 200), missing) :
        lk \in {180, 130}, rk \in {180, 130}, el \in {180, 80},
        missing \in MissingSets}

PartialExercises == {"squat", "pushup", "mountain_climber"}

InitPartial ==
    /\ Init
    /\ current_exercise \in PartialExercises

NextPartial == Update(PartialFrames, {10})

SpecPartial == InitPartial /\ [][NextPartial]_vars

\* ---------------------------------------------------------------- unsteady clock
\* the cap on the repetitions one track counts in a session
MaxReps == 1

\* the latest reading of the unsteady clock
MaxClock == 40

\* the differences between two successive readings of time.time(): the wall
\* clock may be set back between two calls
ClockSteps == {-10, 10, 20}

\* the frames of a subject who bends each knee fully or not at all
ClockFrames == {PoseFrame(lk, rk, 170, 5, 200) : lk \in {180, 130}, rk \in {180, 130}}

\* an engine call whose clock reading may be earlier than the previous one
UpdateAnyClock ==
    \E features \in ClockFrames, dt \in ClockSteps :
        /\ now + dt > 0
        /\ now + dt <= MaxClock
        /\ Call(features, 95, current_exercise, now + dt)
        /\ WithinSamples(limb_states')
        /\ \A l \in DOMAIN limb_states' : limb_states'[l].rep_id <= MaxReps
        /\ UNCHANGED <<rep_queue, motion, twin, worker, unfinished_tasks>>

InitClock ==
    /\ Init
    /\ current_exercise \in {"squat", "mountain_climber"}

NextClock == UpdateAnyClock

SpecClock == InitClock /\ [][NextClock]_vars

\* ---------------------------------------------------------------- twin sessions
\* the exercises configured with a left and a right track
PairedExercises == {"mountain_climber"}

\* the feature key get_limb_joint_flex reads for a knee-driven side track
KneeKeyOf(limb) ==
    IF limb = "left" THEN "left_knee_angle_frame" ELSE "right_knee_angle_frame"

\* two MultiRepState objects updated at the same clock readings under the same
\* exercise, with frames that agree on the knee angle of one side (chosen at
\* the first call) and are free on the other side
TwinCall ==
    \E limb \in (IF twin.limb = "none" THEN {"left", "right"} ELSE {twin.limb}),
       features \in ClockFrames, other \in ClockFrames, dt \in CoarseDTs :
        /\ other[KneeKeyOf(limb)] = features[KneeKeyOf(limb)]
        /\ now + dt <= MaxTime
        /\ Call(features, 95, current_exercise, now + dt)
        /\ twin' = [limb |-> limb,
                    limb_states |->
                        update_multi_rep_state(twin.limb_states, other, 95,
                                               current_exercise, now + dt).limb_states]
        /\ WithinSamples(limb_states')
        /\ WithinSamples(twin'.limb_states)
        /\ UNCHANGED <<rep_queue, motion, worker, unfinished_tasks>>

InitTwin ==
    /\ Init
    /\ current_exercise \in PairedExercises

NextTwin == TwinCall

SpecTwin == InitTwin /\ [][NextTwin]_vars

\* ---------------------------------------------------------------- frame loop
\* SentToBackend without the parity test: every summary is sent
SentToBackendAll(rep) == rep.rep_id >= 0

\* rep_demo: "Only send odd reps to backend + voice"
SentToBackend(rep) == rep.rep_id % 2 = 1

\* the puts of the loop over completed_reps
Enqueue(queue, reps) == queue \o SelectSeq(reps, SentToBackend)

\* a rep_queue of capacity one: a put waits while a summary is queued
QueueFullAtOne(queue) == Len(queue) >= 1

\* rep_queue = Queue() has no maxsize: it is never full and put never waits
QueueFull(queue) == FALSE

\* every put of the loop over completed_reps finds room in rep_queue
PutsReturn(queue, reps) ==
    \A k \in 1..Len(SelectSeq(reps, SentToBackend)) :
        ~QueueFull(queue \o SubSeq(SelectSeq(reps, SentToBackend), 1, k - 1))

\* one iteration of the frame loop of rep_demo.main on a frame with a
\* detected pose, dt after the last one
Frame(features, dt) ==
    /\ now + dt <= MaxTime
    /\ Call(features, 95, current_exercise, now + dt)
    /\ WithinSamples(limb_states')
    /\ PutsReturn(rep_queue, completed_reps')
    /\ rep_queue' = Enqueue(rep_queue, completed_reps')
    /\ unfinished_tasks' = unfinished_tasks + Len(rep_queue') - Len(rep_queue)
    /\ UNCHANGED <<motion, twin, worker>>

MainLoopFrame == \E features \in PoseFrames({200}), dt \in CoarseDTs : Frame(features, dt)

InitDemo ==
    /\ Init
    /\ current_exercise \in EXERCISE_OPTIONS

NextDemo == MainLoopFrame

SpecDemo == InitDemo /\ [][NextDemo]_vars

\* ---------------------------------------------------------------- feedback worker
\* the coaching messages an LLM reply may carry; "" is an empty message
Messages == {"Nice rep", ""}

\* backend analyze_rep_with_llm: the parsed reply, or None when the LLM call
\* raised or its reply held no JSON
analyze_rep_with_llm(llm) ==
    IF llm = "fails" THEN None ELSE Some([message |-> llm])

\* backend analyze_rep: CoachingResponse(**result) raises on None, which the
\* server answers with status 500
analyze_rep(llm) ==
    IF analyze_rep_with_llm(llm) = None
    THEN [raised |-> FALSE, status_code |-> 500, message |-> ""]
    ELSE [raised |-> FALSE, status_code |-> 200,
          message |-> analyze_rep_with_llm(llm)[1].message]

\* requests.post raising: connection refused, or no reply within timeout=2.0
RequestException == [raised |-> TRUE, status_code |-> 0, message |-> ""]

\* what requests.post ends with
PostOutcomes == {RequestException} \cup {analyze_rep(llm) : llm \in Messages \cup {"fails"}}

\* Coaches without the test "if msg": every 200 reply is published
CoachesAnyReply(resp) == ~resp.raised /\ resp.status_code = 200

\* the reply makes llm_worker publish a coaching message
Coaches(resp) == ~resp.raised /\ resp.status_code = 200 /\ resp.message # ""

\* llm_worker: rep_queue.get() returns the oldest queued summary
WorkerGet ==
    /\ worker_pc = "get"
    /\ rep_queue # <<>>
    /\ rep_summary' = Some(Head(rep_queue))
    /\ rep_queue' = Tail(rep_queue)
    /\ worker_pc' = "post"
    /\ UNCHANGED <<now, limb_states, completed_reps, current_exercise, emitted, cycle,
                   joint_min, motion, twin, last_coaching_message, speech_threads,
                   unfinished_tasks>>

\* WorkerHandle without the try / except / finally: a raising requests.post
\* ends the thread before task_done
WorkerHandleDies(resp) ==
    /\ worker_pc = "post"
    /\ IF Coaches(resp)
       THEN /\ last_coaching_message' = resp.message
            /\ speech_threads' = Append(speech_threads, resp.message)
       ELSE UNCHANGED <<last_coaching_message, speech_threads>>
    /\ IF resp.raised
       THEN worker_pc' = "dead" /\ UNCHANGED <<unfinished_tasks, rep_summary>>
       ELSE /\ unfinished_tasks' = unfinished_tasks - 1
            /\ worker_pc' = "get"
            /\ rep_summary' = None
    /\ UNCHANGED <<now, limb_states, completed_reps, current_exercise, rep_queue,
                   emitted, cycle, joint_min, motion, twin>>

\* llm_worker: requests.post ends with resp; the try / except / finally around
\* it runs and the loop returns to rep_queue.get()
WorkerHandle(resp) ==
    /\ worker_pc = "post"
    /\ IF Coaches(resp)
       THEN /\ last_coaching_message' = resp.message
            /\ speech_threads' = Append(speech_threads, resp.message)
       ELSE UNCHANGED <<last_coaching_message, speech_threads>>
    /\ unfinished_tasks' = unfinished_tasks - 1
    /\ worker_pc' = "get"
    /\ rep_summary' = None
    /\ UNCHANGED <<now, limb_states, completed_reps, current_exercise, rep_queue,
                   emitted, cycle, joint_min, motion, twin>>

WorkerPost == \E resp \in PostOutcomes : WorkerHandle(resp)

NextWorker == MainLoopFrame \/ WorkerGet \/ WorkerPost

SpecWorker == InitDemo /\ [][NextWorker]_vars

\* the same program when the worker thread keeps being scheduled and every
\* requests.post returns or raises (timeout=2.0)
SpecWorkerFair == SpecWorker /\ WF_vars(WorkerGet) /\ WF_vars(WorkerPost)

\* ---------------------------------------------------------------- properties
\* the configuration of the session's exercise
Cfg == get_exercise_config(current_exercise)

AccumulatorsEmpty(state) ==
    /\ state.hip_positions = <<>>
    /\ state.knee_angles = <<>>
    /\ state.elbow_angles = <<>>
    /\ state.torso_devs = <<>>
    /\ state.confidences = <<>>

\* C7: every EXTENDED track has its five accumulators empty and rep_start_time
\* unset, and every FLEXED track has rep_start_time set.
C7_ExtendedIsEmpty ==
    \A l \in DOMAIN limb_states :
        /\ limb_states[l].state \in {"EXTENDED", "FLEXED"}
        /\ limb_states[l].state = "EXTENDED" =>
              AccumulatorsEmpty(limb_states[l]) /\ limb_states[l].rep_start_time = None
        /\ limb_states[l].state = "FLEXED" => limb_states[l].rep_start_time # None

\* a track is back in EXTENDED after a counted repetition while its sibling
\* is FLEXED
C7_Witness ==
    /\ DOMAIN limb_states = {"left", "right"}
    /\ limb_states["left"].state = "EXTENDED"
    /\ limb_states["left"].rep_id = 1
    /\ limb_states["right"].state = "FLEXED"
    /\ Len(limb_states["right"].hip_positions) = 2

\* C3: a FLEXED track whose flex amount falls below extended_threshold less
\* than min_rep_duration after rep_start_time is not counted and gets no
\* summary, but becomes EXTENDED with accumulators and rep_start_time cleared
\* and last_rep_end_time set to the call's clock reading.
C3_ShortCycleDiscarded ==
    [][\A l \in DOMAIN limb_states :
          ( /\ Configured(Cfg, l)
            /\ limb_states[l].state = "FLEXED"
            /\ now' - limb_states[l].rep_start_time[1] < Cfg.min_rep_duration )
          => \A features \in PoseFrames({200}) :
                ( /\ FlexAmount(Cfg, features, l) < Cfg.extended_threshold
                  /\ Call(features, 95, current_exercise, now') )
                => /\ limb_states'[l].rep_id = limb_states[l].rep_id
                   /\ \A i \in DOMAIN completed_reps' : completed_reps'[i].limb_id # l
                   /\ limb_states'[l].state = "EXTENDED"
                   /\ AccumulatorsEmpty(limb_states'[l])
                   /\ limb_states'[l].rep_start_time = None
                   /\ limb_states'[l].last_rep_end_time = Some(now')
      ]_vars

\* a cycle that lasted 5 (less than every min_rep_duration) has just been
\* discarded: the track is EXTENDED, uncounted, cooling down from now, and the
\* cycle log shows the two calls of the cycle
C3_Witness ==
    \E l \in DOMAIN limb_states :
        /\ limb_states[l].state = "EXTENDED"
        /\ limb_states[l].rep_id = 0
        /\ limb_states[l].last_rep_end_time = Some(now)
        /\ Len(cycle[l]) = 2
        /\ now = 10
        /\ completed_reps = <<>>

LimbIndex(cfg, l) == CHOOSE i \in DOMAIN cfg.limbs : cfg.limbs[i] = l

Abs(x) == IF x >= 0 THEN x ELSE -x

\* C4: with limb gating enabled, in a call where the left and right flex
\* amounts differ by less than limb_activation_delta, neither the left nor the
\* right track moves from EXTENDED to FLEXED.
C4_GatedLimbsDoNotStart ==
    [][Cfg.use_limb_delta =>
        \A features \in PoseFrames({200}) :
            ( /\ Abs(FlexAmount(Cfg, features, "left") - FlexAmount(Cfg, features, "right"))
                    < Cfg.limb_activation_delta
              /\ Call(features, 95, current_exercise, now') )
            => \A l \in {"left", "right"} :
                  ~(StateOf(limb_states, l) = "EXTENDED" /\ limb_states'[l].state = "FLEXED")
      ]_vars

\* C9: a call returns at most one summary per configured track, and the
\* summaries are in the order of the configuration's limbs list.
C9_OnePerTrackInOrder ==
    /\ Len(completed_reps) <= Len(Cfg.limbs)
    /\ \A i \in DOMAIN completed_reps : Configured(Cfg, completed_reps[i].limb_id)
    /\ \A i \in DOMAIN completed_reps : \A j \in DOMAIN completed_reps :
          i < j => LimbIndex(Cfg, completed_reps[i].limb_id)
                     < LimbIndex(Cfg, completed_reps[j].limb_id)

\* one call returned a summary for each of the two tracks
C9_Witness ==
    /\ Len(completed_reps) = 2
    /\ completed_reps[1].limb_id = "left"
    /\ completed_reps[2].limb_id = "right"

\* C5: the hip_vertical_range of every summary is max - min of exactly the
\* center_hip_y samples of the calls from the one that moved the track into
\* FLEXED through the one that moved it back to EXTENDED.
C5_HipRangeOfThisCycle ==
    \A i \in DOMAIN completed_reps :
        /\ cycle[completed_reps[i].limb_id] # <<>>
        /\ completed_reps[i].hip_vertical_range =
              SeqMax(cycle[completed_reps[i].limb_id])
                - SeqMin(cycle[completed_reps[i].limb_id])

\* the second repetition of a track is summarised with a hip range of 0
\* after a first repetition was emitted for it
C5_Witness ==
    \E i \in DOMAIN completed_reps :
        /\ completed_reps[i].rep_id = 2
        /\ completed_reps[i].hip_vertical_range = 0
        /\ cycle[completed_reps[i].limb_id] = <<230, 230>>

\* how many entries of rep_queue are the summary of repetition rep_id of limb_id
TimesQueued(limb_id, rep_id) ==
    Cardinality({i \in DOMAIN rep_queue :
                    rep_queue[i].limb_id = limb_id /\ rep_queue[i].rep_id = rep_id})

\* C6 as stated: every summary returned by update_multi_rep_state is put on
\* rep_queue exactly once.
C6_EveryRepQueuedOnce ==
    \A e \in DOMAIN emitted : TimesQueued(emitted[e][1], emitted[e][2]) = 1

\* C6 as amended: a returned summary is put on rep_queue exactly once when its
\* rep_id is odd and never when its rep_id is even, and rep_queue holds
\* nothing but returned summaries.
C6_OddRepsQueuedOnce ==
    /\ \A e \in DOMAIN emitted :
          TimesQueued(emitted[e][1], emitted[e][2]) = IF emitted[e][2] % 2 = 1 THEN 1 ELSE 0
    /\ \A i \in DOMAIN rep_queue :
          \E e \in DOMAIN emitted :
              emitted[e][1] = rep_queue[i].limb_id /\ emitted[e][2] = rep_queue[i].rep_id

\* the frame loop has seen the first and the second repetition of a track and
\* rep_queue holds the first only
C6_Witness ==
    /\ Len(emitted) = 2
    /\ emitted[1][1] = emitted[2][1]
    /\ emitted[2][2] = 2
    /\ Len(rep_queue) = 1
    /\ rep_queue[1].rep_id = 1

\* the number of summaries of limb l in a returned list
Returned(reps, l) == Cardinality({i \in DOMAIN reps : reps[i].limb_id = l})

RepIdOf(ls, l) == IF l \in DOMAIN ls THEN ls[l].rep_id ELSE 0

\* C8: across calls, whatever the exercise hint, no track is deleted, and a
\* track's rep_id grows by exactly one in a call that returns a summary for it
\* and is unchanged by every other call.
C8_RepIdOnlyCounts ==
    [][ /\ DOMAIN limb_states \subseteq DOMAIN limb_states'
        /\ \A l \in DOMAIN limb_states' :
              /\ Returned(completed_reps', l) \in {0, 1}
              /\ limb_states'[l].rep_id = RepIdOf(limb_states, l) + Returned(completed_reps', l)
      ]_vars

\* the global track counted a repetition in an earlier call and the last call
\* was made for mountain_climber, whose tracks are left and right
C8_Witness ==
    /\ DOMAIN limb_states = {"global", "left", "right"}
    /\ limb_states["global"].rep_id = 1
    /\ current_exercise = "mountain_climber"
    /\ \E e \in DOMAIN emitted : emitted[e][1] = "global" /\ emitted[e][3] < now
    /\ limb_states["left"].state = "FLEXED"

\* C10: every exercise name that is None, empty or no key of EXERCISE_CONFIG
\* gets DEFAULT_CONFIG, and a call with such a name is a run of the state
\* machine on the tracks and parameters of DEFAULT_CONFIG.
C10_UnknownUsesDefault ==
    [][current_exercise' \notin DOMAIN EXERCISE_CONFIG =>
        /\ \A h \in Hints \ DOMAIN EXERCISE_CONFIG : get_exercise_config(h) = DEFAULT_CONFIG
        /\ DOMAIN limb_states' = {"global"}
        /\ \E features \in PoseFrames({200}) :
              \E r \in {RunLimbs([l \in {"global"} |->
                                    IF l \in DOMAIN limb_states THEN limb_states[l]
                                    ELSE SingleLimbState],
                                 <<>>, DEFAULT_CONFIG, 1, features, 95, now',
                                 current_exercise')} :
                  /\ limb_states' = r.limb_states
                  /\ completed_reps' = r.completed_reps
      ]_vars

\* a call with hint None has just counted a repetition lasting the default
\* min_rep_duration or longer
C10_Witness ==
    /\ current_exercise = NoneHint
    /\ Len(completed_reps) = 1
    /\ completed_reps[1].limb_id = "global"
    /\ completed_reps[1].exercise_hint = NoneHint
    /\ completed_reps[1].duration_s >= DEFAULT_CONFIG.min_rep_duration

\* the clock readings up to t of the calls made every period
SampleTimes(period, t) == {k * period : k \in 1..(t \div period)}

SetMin(S) == CHOOSE x \in S : \A y \in S : x <= y

\* the readings at which a movement sampled every period shows a flex amount
\* above flexed_threshold
FlexedAt(m, cfg, period) ==
    {t \in SampleTimes(period, MaxTime) : MotionFlex(m, t) > cfg.flexed_threshold}

\* the later readings at which it shows a flex amount below extended_threshold
ExtendedAfter(m, cfg, period) ==
    {t \in SampleTimes(period, MaxTime) :
        /\ t > SetMin(FlexedAt(m, cfg, period))
        /\ MotionFlex(m, t) < cfg.extended_threshold}

\* the repetitions a movement sampled every period holds by time t: one when
\* its cycle, from the first sample above flexed_threshold to the first later
\* sample below extended_threshold, has ended by t and lasted min_rep_duration
CyclesBy(m, cfg, period, t) ==
    IF FlexedAt(m, cfg, period) = {} THEN 0
    ELSE IF ExtendedAfter(m, cfg, period) = {} THEN 0
    ELSE IF /\ SetMin(ExtendedAfter(m, cfg, period)) <= t
            /\ SetMin(ExtendedAfter(m, cfg, period)) - SetMin(FlexedAt(m, cfg, period))
                  >= cfg.min_rep_duration
         THEN 1 ELSE 0

\* the frames of the movement are over
MotionOver == now + motion.period > MaxTime

\* C1 as stated: once the movement is over, each track has counted exactly one
\* repetition if the movement's cycle (as the finest sampling sees it) meets
\* min_rep_duration and none otherwise, whatever the frame period.
C1_CountIndependentOfRate ==
    MotionOver =>
        \A i \in DOMAIN Cfg.limbs :
            RepIdOf(limb_states, Cfg.limbs[i]) = CyclesBy(motion, Cfg, 1, MaxTime)

\* C1 as amended: each track has counted exactly one repetition once the
\* cycle its own frames show has ended, if that cycle lasted min_rep_duration
\* from the first frame above flexed_threshold to the first later frame below
\* extended_threshold, and none otherwise.
C1_CountOfSampledCycle ==
    \A i \in DOMAIN Cfg.limbs :
        RepIdOf(limb_states, Cfg.limbs[i]) = CyclesBy(motion, Cfg, motion.period, now)

\* a movement whose cycle meets min_rep_duration at the finest sampling is
\* over, and at this frame period its cycle was too short to count
C1_Witness ==
    /\ MotionOver
    /\ motion.period > 1
    /\ CyclesBy(motion, Cfg, 1, MaxTime) = 1
    /\ FlexedAt(motion, Cfg, motion.period) # {}
    /\ \A i \in DOMAIN Cfg.limbs :
          /\ Cfg.limbs[i] \in DOMAIN limb_states
          /\ limb_states[Cfg.limbs[i]].rep_id = 0
          /\ limb_states[Cfg.limbs[i]].last_rep_end_time # None

\* the keys of the angles from which get_limb_joint_flex computes the flex
\* amount of a limb
DrivingKeys(cfg, limb) ==
    IF cfg.primary_joint = "knee"
    THEN IF limb = "left" THEN {"left_knee_angle_frame"}
         ELSE IF limb = "right" THEN {"right_knee_angle_frame"}
         ELSE {"left_knee_angle_frame", "right_knee_angle_frame"}
    ELSE IF limb = "left" THEN {"left_elbow_angle_frame"}
         ELSE IF limb = "right" THEN {"right_elbow_angle_frame"}
         ELSE {"left_elbow_angle_frame", "right_elbow_angle_frame"}

\* C11: a call whose frame lacks the angles that drive a configured track
\* never moves that track from EXTENDED to FLEXED and never counts a
\* repetition on it (every missing field being read as its default).
C11_MissingAngleNeverCounts ==
    [][\A i \in DOMAIN Cfg.limbs :
          ( \/ /\ StateOf(limb_states, Cfg.limbs[i]) = "EXTENDED"
               /\ limb_states'[Cfg.limbs[i]].state = "FLEXED"
            \/ limb_states'[Cfg.limbs[i]].rep_id # RepIdOf(limb_states, Cfg.limbs[i]) )
          => \A features \in PartialFrames :
                DrivingKeys(Cfg, Cfg.limbs[i]) \cap DOMAIN features = {}
                    => ~Call(features, 95, current_exercise, now')
      ]_vars

\* C12: whatever llm_worker is doing and however many summaries are queued,
\* the frame loop can process every next frame: the puts of the iteration
\* return at once and nothing in the iteration waits for the feedback path.
C12_FrameLoopNeverBlocked ==
    \A features \in PoseFrames({200}), dt \in CoarseDTs :
        ( /\ now + dt <= MaxTime
          /\ WithinSamples(update_multi_rep_state(limb_states, features, 95,
                                                  current_exercise, now + dt).limb_states) )
        => ENABLED Frame(features, dt)

\* llm_worker is waiting on the backend, another summary is queued behind the
\* one it holds, and the frame loop has processed a later frame meanwhile
C12_Witness ==
    /\ worker_pc = "post"
    /\ Len(rep_queue) = 1
    /\ Len(emitted) = 2
    /\ now > emitted[2][3]
    /\ completed_reps = <<>>

\* a reply that is a failure of the feedback path: the request raised or
\* timed out, the status is not 200, or the message is empty
FeedbackFailed(resp) == resp.raised \/ resp.status_code # 200 \/ resp.message = ""

\* C13: when the feedback path fails for the summary llm_worker holds, the
\* worker swallows it: last_coaching_message is unchanged, no speech thread is
\* started, nothing of the frame loop or the engine changes, the queue keeps
\* its summaries, and the worker is back at rep_queue.get() for the next one.
C13_FailureSwallowed ==
    [][\A resp \in PostOutcomes :
          (FeedbackFailed(resp) /\ WorkerHandle(resp)) =>
              /\ last_coaching_message' = last_coaching_message
              /\ speech_threads' = speech_threads
              /\ worker_pc' = "get"
              /\ rep_queue' = rep_queue
              /\ UNCHANGED <<now, limb_states, completed_reps, current_exercise>>
      ]_vars

\* after a failed request for the first summary, with nothing published or
\* spoken, llm_worker has taken the second summary and is posting it
C13_Witness ==
    /\ worker_pc = "post"
    /\ rep_summary # None
    /\ Len(emitted) = 2
    /\ rep_queue = <<>>
    /\ unfinished_tasks = 1
    /\ last_coaching_message = ""
    /\ speech_threads = <<>>

\* C14: the squat scenario counts exactly one repetition on the global track,
\* at its sixth frame, and the summary has knee_min_angle 130.
C14_SquatScenarioOneRep ==
    /\ FramesFed < 6 => emitted = <<>> /\ RepIdOf(limb_states, "global") = 0
    /\ FramesFed = 6 =>
          /\ Len(completed_reps) = 1
          /\ completed_reps[1].limb_id = "global"
          /\ completed_reps[1].rep_id = 1
          /\ completed_reps[1].knee_min_angle = 130
    /\ FramesFed >= 6 =>
          /\ Len(emitted) = 1
          /\ DOMAIN limb_states = {"global"}
          /\ limb_states["global"].rep_id = 1
          /\ limb_states["global"].state = "EXTENDED"

\* the seven frames have been fed and one repetition is counted
C14_Witness ==
    /\ FramesFed = Len(SquatAngles)
    /\ Len(emitted) = 1
    /\ emitted[1] = <<"global", 1, 60>>
    /\ limb_states["global"].rep_id = 1

\* C15: a track that a call made for one exercise left in FLEXED is neither
\* completed, counted, summarised nor changed in any field by a call made for
\* a different exercise.
C15_TracksPerExercise ==
    [][( /\ current_exercise \in EXERCISE_OPTIONS
         /\ current_exercise' \in EXERCISE_OPTIONS
         /\ current_exercise' # current_exercise )
       => \A l \in DOMAIN limb_states :
             (Configured(Cfg, l) /\ limb_states[l].state = "FLEXED") =>
                 /\ limb_states'[l] = limb_states[l]
                 /\ Returned(completed_reps', l) = 0
      ]_vars

\* C16: a call creates exactly the tracks of the active configuration's limbs
\* list that are missing, deletes none, and leaves every field of every track
\* outside that list unchanged.
C16_OnlyActiveTracksTouched ==
    [][\E cfg \in {get_exercise_config(current_exercise')} :
          /\ DOMAIN limb_states' =
                DOMAIN limb_states \cup {cfg.limbs[i] : i \in DOMAIN cfg.limbs}
          /\ \A l \in DOMAIN limb_states :
                ~Configured(cfg, l) => limb_states'[l] = limb_states[l]
      ]_vars

\* the global track, FLEXED since its first call, has been left as it was by
\* two later mountain_climber calls, which created and used left and right
C16_Witness ==
    /\ DOMAIN limb_states = {"global", "left", "right"}
    /\ current_exercise = "mountain_climber"
    /\ now = 30
    /\ limb_states["global"].state = "FLEXED"
    /\ limb_states["global"].rep_start_time = Some(10)
    /\ Len(limb_states["global"].hip_positions) = 1
    /\ limb_states["left"].state = "FLEXED"
    /\ Len(limb_states["left"].hip_positions) = 2

\* the state of limb l before a call, a missing one being created first
Before(ls, l) == IF l \in DOMAIN ls THEN ls[l] ELSE SingleLimbState

\* the cooldown of a limb state has elapsed at clock reading t
CooldownElapsed(state, cfg, t) ==
    \/ state.last_rep_end_time = None
    \/ t - state.last_rep_end_time[1] >= cfg.min_rest_time

C18_NonDriverIsSentinel ==
    \A i \in DOMAIN completed_reps :
        IF Cfg.primary_joint = "knee"
        THEN completed_reps[i].elbow_min_angle = 180
        ELSE completed_reps[i].knee_min_angle = 180

\* C19: in every returned summary the driving joint's minimum-angle field is
\* the least, over the calls of the cycle, of the angle whose flex amount
\* drove the track, and so it is below 180 - flexed_threshold.
C19_DriverFieldIsCycleMin ==
    \A i \in DOMAIN completed_reps :
        /\ joint_min[completed_reps[i].limb_id] # None
        /\ (IF Cfg.primary_joint = "knee" THEN completed_reps[i].knee_min_angle
            ELSE completed_reps[i].elbow_min_angle)
              = joint_min[completed_reps[i].limb_id][1]
        /\ joint_min[completed_reps[i].limb_id][1] < 180 - Cfg.flexed_threshold

\* C20: the track states and the summaries a call produces are determined by
\* the track states before it and its inputs (features, confidence, exercise):
\* the same call made at two different clock readings gives the same result.
C20_ResultDeterminedByInputs ==
    \A features \in PoseFrames({200}), dt1 \in DTs, dt2 \in DTs :
        update_multi_rep_state(limb_states, features, 95, current_exercise, now + dt1)
          = update_multi_rep_state(limb_states, features, 95, current_exercise, now + dt2)

\* a later clock reading at which a frame moves the EXTENDED track l to FLEXED
CanStartLater(l) ==
    \E t \in (now + 1)..(MaxClock + 50), features \in ClockFrames :
        update_multi_rep_state(limb_states, features, 95, current_exercise,
                               t).limb_states[l].state = "FLEXED"

\* C21: when the clock reads earlier at the end of a flex cycle than at its
\* start, the call completes as for a cycle of duration zero: the track is
\* back in EXTENDED with cleared accumulators, rep_start_time None and
\* last_rep_end_time the new reading, its rep_id is unchanged and no summary
\* is returned for it; no returned summary has a negative duration_s; and
\* every EXTENDED track can start a repetition at some later clock reading.
C21_BackwardClockDiscards ==
    /\ [][\A l \in DOMAIN limb_states :
            (/\ Configured(Cfg, l)
             /\ limb_states[l].state = "FLEXED"
             /\ now' < limb_states[l].rep_start_time[1]
             /\ limb_states'[l].state = "EXTENDED")
            => /\ AccumulatorsEmpty(limb_states'[l])
               /\ limb_states'[l].rep_start_time = None
               /\ limb_states'[l].last_rep_end_time = Some(now')
               /\ limb_states'[l].rep_id = limb_states[l].rep_id
               /\ Returned(completed_reps', l) = 0]_vars
    /\ [](\A i \in DOMAIN completed_reps : completed_reps[i].duration_s >= 0)
    /\ [](\A l \in DOMAIN limb_states :
            (Configured(Cfg, l) /\ limb_states[l].state = "EXTENDED")
            => CanStartLater(l))

\* the left track started a new repetition at reading 30 after a cycle that
\* began at a later reading was closed at reading 10 without being counted
C21_Witness ==
    /\ current_exercise = "mountain_climber"
    /\ DOMAIN limb_states = {"left", "right"}
    /\ now = 30
    /\ limb_states["left"].state = "FLEXED"
    /\ limb_states["left"].rep_start_time = Some(30)
    /\ limb_states["left"].last_rep_end_time = Some(10)
    /\ limb_states["left"].rep_id = 0

\* what a track shows of its state machine: state, counter and the two times
TrackView(state) ==
    [state |-> state.state, rep_id |-> state.rep_id,
     rep_start_time |-> state.rep_start_time,
     last_rep_end_time |-> state.last_rep_end_time]

\* C22: two sessions of a paired exercise that are called at the same clock
\* readings with frames agreeing on the knee angle of one side have, after
\* every call sequence, the same state, rep_id, rep_start_time and
\* last_rep_end_time on that side's track, whatever the knee angles of the
\* other side were; this holds for the right track and for the left one.
C22_TracksDoNotInteract ==
    twin.limb # "none" =>
        TrackView(limb_states[twin.limb]) = TrackView(twin.limb_states[twin.limb])

\* both sessions counted one repetition on the right track while only the
\* first one counted a repetition on the left track
C22_Witness ==
    /\ twin.limb = "right"
    /\ DOMAIN limb_states = {"left", "right"}
    /\ limb_states["right"].rep_id = 1
    /\ twin.limb_states["right"].rep_id = 1
    /\ limb_states["left"].rep_id = 1
    /\ twin.limb_states["left"].rep_id = 0
    /\ twin.limb_states["left"].state = "EXTENDED"
    /\ twin.limb_states["left"].last_rep_end_time = None

\* frames with every key, all four joints straight or all four bent to 80 degrees
BendFrames == {FullFrame(a, a, a, a, 5, 200) : a \in {180, 80}}

\* three further calls, 0.3 s apart, after which track l has counted a repetition
CanCountAgain(l) ==
    \E f1 \in BendFrames, f2 \in BendFrames, f3 \in BendFrames :
        LET r1 == update_multi_rep_state(limb_states, f1, 95, current_exercise, now + 30)
            r2 == update_multi_rep_state(r1.limb_states, f2, 95, current_exercise, now + 60)
            r3 == update_multi_rep_state(r2.limb_states, f3, 95, current_exercise, now + 90)
        IN  r3.limb_states[l].rep_id > RepIdOf(limb_states, l)

\* C23: from every reachable state, for every track of the active exercise,
\* there are further frames at later clock readings after which the track has
\* counted another repetition: no track is stuck in FLEXED or in cooldown.
C23_NoTerminalState ==
    \A i \in DOMAIN Cfg.limbs : CanCountAgain(Cfg.limbs[i])

\* the left track rests right after a counted repetition while the right
\* track is FLEXED with three samples
C23_Witness ==
    /\ current_exercise = "mountain_climber"
    /\ DOMAIN limb_states = {"left", "right"}
    /\ limb_states["left"].state = "EXTENDED"
    /\ limb_states["left"].rep_id = 1
    /\ limb_states["left"].last_rep_end_time = Some(now)
    /\ limb_states["right"].state = "FLEXED"
    /\ Len(limb_states["right"].hip_positions) = 3

\* the rep_ids of the summaries emitted for track l, in emission order
RepIdsEmitted(l) ==
    LET ForLimb(entry) == entry[1] = l
        entries == SelectSeq(emitted, ForLimb)
    IN  [i \in DOMAIN entries |-> entries[i][2]]

\* C24: at every moment the rep_ids of the summaries emitted so far for a
\* track are 1, 2, ..., n in emission order, where n is the track's rep_id
\* counter (so a call that returns no summary for the track, a discarded
\* short cycle included, leaves the counter alone), and every summary a call
\* returns carries the rep_id its track has at the end of that call.
C24_RepIdsSequential ==
    /\ \A l \in LimbIds :
            RepIdsEmitted(l) = [i \in 1..RepIdOf(limb_states, l) |-> i]
    /\ \A i \in DOMAIN completed_reps :
            completed_reps[i].rep_id = limb_states[completed_reps[i].limb_id].rep_id

\* the left track, whose only summary is number 1 from an earlier call, has
\* just ended a later cycle that was discarded: its counter is still 1
C24_Witness ==
    /\ current_exercise = "mountain_climber"
    /\ DOMAIN limb_states = {"left", "right"}
    /\ RepIdsEmitted("left") = <<1>>
    /\ \E i \in DOMAIN emitted : emitted[i][1] = "left" /\ emitted[i][3] < now
    /\ limb_states["left"].state = "EXTENDED"
    /\ limb_states["left"].last_rep_end_time = Some(now)
    /\ limb_states["left"].rep_id = 1
    /\ completed_reps = <<>>

\* the summary of repetition rep_id of track limb_id waits in rep_queue
Queued(limb_id, rep_id) ==
    \E i \in DOMAIN rep_queue :
        rep_queue[i].limb_id = limb_id /\ rep_queue[i].rep_id = rep_id

\* llm_worker holds the summary of repetition rep_id of track limb_id
Taken(limb_id, rep_id) ==
    /\ rep_summary # None
    /\ rep_summary[1].limb_id = limb_id
    /\ rep_summary[1].rep_id = rep_id

\* C25: with the worker scheduled and every backend call ending, every queued
\* summary is eventually held by llm_worker and every held summary is
\* eventually finished; the worker always takes the oldest queued summary and
\* the frame loop only appends behind the queued ones; and task_done runs
\* once per summary taken, on every outcome of the call: the unfinished count
\* is always the queued summaries plus the one in the worker's hands, and it
\* drops by one exactly when the worker lets go of a summary.
C25_QueuedSummariesServedInOrder ==
    /\ \A limb_id \in LimbIds : \A rep_id \in {1, 3} :
            /\ Queued(limb_id, rep_id) ~> Taken(limb_id, rep_id)
            /\ Taken(limb_id, rep_id) ~> (rep_summary = None)
    /\ [](unfinished_tasks = Len(rep_queue) + (IF rep_summary = None THEN 0 ELSE 1))
    /\ [][IF rep_summary' = rep_summary
          THEN /\ Len(rep_queue') >= Len(rep_queue)
               /\ SubSeq(rep_queue', 1, Len(rep_queue)) = rep_queue
          ELSE IF rep_summary = None
               THEN /\ rep_queue # <<>>
                    /\ rep_summary' = Some(Head(rep_queue))
                    /\ rep_queue' = Tail(rep_queue)
                    /\ unfinished_tasks' = unfinished_tasks
               ELSE /\ rep_summary' = None
                    /\ rep_queue' = rep_queue
                    /\ unfinished_tasks' = unfinished_tasks - 1]_vars

\* of two summaries queued in one frame the first has been taken and
\* finished without a coaching message while the second still waits
C25_Witness ==
    /\ current_exercise = "mountain_climber"
    /\ Len(emitted) = 2
    /\ emitted[1][3] = emitted[2][3]
    /\ Len(rep_queue) = 1
    /\ rep_queue[1].limb_id = emitted[2][1]
    /\ rep_summary = None
    /\ unfinished_tasks = 1
    /\ last_coaching_message = ""

====
